---- MODULE Spec2Model ----
(***************************************************************************)
(* passbook administration overview (passbook/admin/views/overview.py).    *)
(*                                                                         *)
(* Three request handlers: AdministrationOverviewView (GET, renders the    *)
(* dashboard), PolicyCacheClearView and FlowCacheClearView (POST, delete   *)
(* the cache keys of one prefix).  The state is the key-value cache, the   *)
(* stored records the dashboard counts, the task queue, the request being  *)
(* handled and the response of the last request.  A handler talks to the   *)
(* cache in separate round trips; each round trip is one step, and other   *)
(* processes change the cache between the steps.                           *)
(***************************************************************************)
EXTENDS Integers, Sequences, FiniteSets

VARIABLES
    cache,       \* cache key -> None when the key is absent, Some(value) when stored
    DEBUG,       \* settings.DEBUG
    task_queue,  \* number of update_latest_version tasks enqueued, not yet run
    users,       \* User rows (primary keys); the anonymous user is one of them
    providers,   \* Provider rows
    policies,    \* Policy rows with their bindings and prompt stages
    events,      \* audit Event rows, in insertion order
    tie_order,   \* the order in which the database returns rows that sort equal
    resp,        \* the response of the last request handled
    inflight     \* the request being handled: where it is and what it has read

vars == <<cache, DEBUG, task_queue, users, providers, policies, events, tie_order,
          resp, inflight>>

\* A Python value that may be None: None is the empty tuple and a value x is
\* the one-tuple Some(x), so that no value, and no string, equals None.
None == <<>>

Some(x) == <<x>>

Value(o) == o[1]

\* None in a primary-key place (a JSON null application, a missing user pk);
\* primary keys start at 1
Null == 0

----------------------------------------------------------------------------
(* Bounds of the model *)

MaxTasks == 2       \* enqueued version tasks
MaxUsers == 2       \* User rows besides the anonymous user, in UserTables
MaxPolicies == 2    \* Policy rows, in PolicyTables
MaxProviders == 1   \* Provider rows, in ProviderTables
NApps == 16         \* applications that audit events can name

----------------------------------------------------------------------------
(* Strings: characters, numbers, letter case *)

Char(s, i) == SubSeq(s, i, i)

Rest(s, i) == SubSeq(s, i, Len(s))

\* the pattern's [0-9]
Digits == <<"0", "1", "2", "3", "4", "5", "6", "7", "8", "9">>

IsDigit(c) == \E d \in 1..10 : Digits[d] = c

DigitVal(c) == (CHOOSE d \in 1..10 : Digits[d] = c) - 1

\* the white space characters: those str.isspace() and the pattern's \s
\* accept.  U+000B, U+001C to U+001F, U+0085, U+00A0 and U+1680 have no
\* escape and stand in the text as they are; the remaining ones (U+2000 to
\* U+200A, U+2028, U+2029, U+202F, U+205F, U+3000) cannot be written in a
\* string of this language at all, so no string of the model holds them.
VT == ""
FS == ""
GS == ""
RS == ""
US == ""
NEL == ""
NBSP == " "
OGHAM_SPACE == " "

Whitespace == {" ", "\t", "\n", "\r", "\f", VT, FS, GS, RS, US, NEL, NBSP, OGHAM_SPACE}

\* the white space int() drops around a number: FS, GS, RS and US are white
\* space to str.isspace() and to \s, and not to int()
IntWhitespace == Whitespace \ {FS, GS, RS, US}

\* the decimal digits of the other scripts that a string of this language can
\* hold, row d + 1 those of value d; int() reads them as it reads 0 to 9
OtherDigits ==
    <<
       "۰߀০૦௦೦෦໐႐០᧐᪀᪐᮰꣐꧐꧰꯰",
       "۱߁১૧௧೧෧໑႑១᧑᪁᪑᮱꣑꧑꧱꯱",
       "۲߂২૨௨೨෨໒႒២᧒᪂᪒᮲꣒꧒꧲꯲",
       "۳߃৩૩௩೩෩໓႓៣᧓᪃᪓᮳꣓꧓꧳꯳",
       "۴߄৪૪௪೪෪໔႔៤᧔᪄᪔᮴꣔꧔꧴꯴",
       "۵߅৫૫௫೫෫໕႕៥᧕᪅᪕᮵꣕꧕꧵꯵",
       "۶߆৬૬௬೬෬໖႖៦᧖᪆᪖᮶꣖꧖꧶꯶",
       "۷߇৭૭௭೭෭໗႗៧᧗᪇᪗᮷꣗꧗꧷꯷",
       "۸߈৮૮௮೮෮໘႘៨᧘᪈᪘᮸꣘꧘꧸꯸",
       "۹߉৯૯௯೯෯໙႙៩᧙᪉᪙᮹꣙꧙꧹꯹"
    >>

InRow(c, row) == \E i \in 1..Len(row) : Char(row, i) = c

IsDecimal(c) == IsDigit(c) \/ \E d \in 1..10 : InRow(c, OtherDigits[d])

DecimalVal(c) ==
    IF IsDigit(c) THEN DigitVal(c)
    ELSE (CHOOSE d \in 1..10 : InRow(c, OtherDigits[d])) - 1

\* the characters that are digits to str.isdigit() and no decimal digits
\* (superscripts, circled digits and the like), as far as a string of this
\* language can hold them
DigitLike == "²³¹᧚₀₁₂₃₄₅₆₇₈₉⒈⒉⒊⒋⒌⒍⒎⒏⒐⓪⓵⓶⓷⓸⓹⓺⓻⓼⓽⓿➀➁➂➃➄➅➆➇➈➊➋➌➍➎➏➐➑➒"

\* s.isdigit()
isdigit(s) ==
    /\ Len(s) > 0
    /\ \A i \in 1..Len(s) : IsDecimal(Char(s, i)) \/ InRow(Char(s, i), DigitLike)

\* what int() raises on a string that is no decimal number
ValueError == "ValueError"

RECURSIVE IntStrip(_)
IntStrip(s) ==
    IF Len(s) = 0 THEN s
    ELSE IF Char(s, 1) \in IntWhitespace THEN IntStrip(Rest(s, 2))
    ELSE IF Char(s, Len(s)) \in IntWhitespace THEN IntStrip(SubSeq(s, 1, Len(s) - 1))
    ELSE s

\* the number a run of digits and underscores denotes
RECURSIVE DecimalValue(_)
DecimalValue(s) ==
    IF Len(s) = 0 THEN 0
    ELSE IF Char(s, Len(s)) = "_" THEN DecimalValue(SubSeq(s, 1, Len(s) - 1))
    ELSE 10 * DecimalValue(SubSeq(s, 1, Len(s) - 1)) + DecimalVal(Char(s, Len(s)))

\* the text is a run of decimal digits, single underscores allowed between
\* two digits
IsDecimalLiteral(body) ==
    /\ Len(body) > 0
    /\ \A i \in 1..Len(body) :
          \/ IsDecimal(Char(body, i))
          \/ /\ Char(body, i) = "_"
             /\ 1 < i /\ i < Len(body)
             /\ IsDecimal(Char(body, i - 1))
             /\ IsDecimal(Char(body, i + 1))

\* int() of text without white space around it: one sign may lead
SignedInt(t) ==
    IF Len(t) > 0 /\ Char(t, 1) = "-"
    THEN IF IsDecimalLiteral(Rest(t, 2)) THEN 0 - DecimalValue(Rest(t, 2)) ELSE ValueError
    ELSE IF Len(t) > 0 /\ Char(t, 1) = "+"
    THEN IF IsDecimalLiteral(Rest(t, 2)) THEN DecimalValue(Rest(t, 2)) ELSE ValueError
    ELSE IF IsDecimalLiteral(t) THEN DecimalValue(t) ELSE ValueError

\* int(s): white space around the number is dropped, one sign may lead, and
\* single underscores may stand between digits
ToInt(s) == SignedInt(IntStrip(s))

\* str() of an integer
RECURSIVE IntToStr(_)
IntToStr(n) ==
    IF n < 0 THEN "-" \o IntToStr(0 - n)
    ELSE IF n < 10 THEN Digits[n + 1]
    ELSE IntToStr(n \div 10) \o Digits[(n % 10) + 1]

UPPERCASE == "ABCDEFGHIJKLMNOPQRSTUVWXYZ"

LOWERCASE == "abcdefghijklmnopqrstuvwxyz"

LowerChar(c) ==
    IF \E i \in 1..26 : Char(UPPERCASE, i) = c
    THEN Char(LOWERCASE, CHOOSE i \in 1..26 : Char(UPPERCASE, i) = c)
    ELSE c

\* the pattern is compiled with re.IGNORECASE, and the letters it matched are
\* put through .lower(): a letter A to Z counts as, and becomes, a to z.
\* Every other character is left as it is: the four characters beyond ASCII
\* that the pattern's letters also match (U+0130, U+0131, U+017F, U+212A)
\* cannot be written in a string of this language.
RECURSIVE IgnoreCase(_)
IgnoreCase(s) == IF Len(s) = 0 THEN "" ELSE LowerChar(Char(s, 1)) \o IgnoreCase(Rest(s, 2))

\* the pattern's [a-z0-9], on text put through IgnoreCase
IsAlnum(c) == IsDigit(c) \/ \E i \in 1..26 : Char(LOWERCASE, i) = c

\* the text the pattern's leading and trailing \s* leave
RECURSIVE Strip(_)
Strip(s) ==
    IF Len(s) = 0 THEN s
    ELSE IF Char(s, 1) \in Whitespace THEN Strip(Rest(s, 2))
    ELSE IF Char(s, Len(s)) \in Whitespace THEN Strip(SubSeq(s, 1, Len(s) - 1))
    ELSE s

\* the text starts with lit at position i
At(s, i, lit) == i + Len(lit) - 1 <= Len(s) /\ SubSeq(s, i, i + Len(lit) - 1) = lit

\* the position after the run of digits (of letters and digits) that starts at i
RECURSIVE DigitsEnd(_, _)
DigitsEnd(s, i) == IF i <= Len(s) /\ IsDigit(Char(s, i)) THEN DigitsEnd(s, i + 1) ELSE i

RECURSIVE AlnumEnd(_, _)
AlnumEnd(s, i) == IF i <= Len(s) /\ IsAlnum(Char(s, i)) THEN AlnumEnd(s, i + 1) ELSE i

Separators == {"-", "_", "."}

\* the position after an optional separator at i
SepEnd(s, i) == IF i <= Len(s) /\ Char(s, i) \in Separators THEN i + 1 ELSE i

\* re.split on the separators
RECURSIVE SplitSeparators(_)
SplitSeparators(s) ==
    IF \A i \in 1..Len(s) : Char(s, i) \notin Separators THEN <<s>>
    ELSE LET i == CHOOSE j \in 1..Len(s) :
                    Char(s, j) \in Separators
                    /\ \A k \in 1..(j - 1) : Char(s, k) \notin Separators
         IN  <<SubSeq(s, 1, i - 1)>> \o SplitSeparators(Rest(s, i + 1))

\* sep.join(strs)
RECURSIVE Join(_, _)
Join(strs, sep) ==
    IF Len(strs) = 0 THEN ""
    ELSE IF Len(strs) = 1 THEN strs[1]
    ELSE strs[1] \o sep \o Join(Tail(strs), sep)
----------------------------------------------------------------------------
(* packaging.version.parse and the version constant *)

\* passbook.__version__ (passbook/__init__.py)
passbook_version == "0.10.0-stable"

\* the alternatives of the pattern's letter groups, the longer spelling
\* before its prefix
PRE_LETTERS == <<"preview", "alpha", "beta", "pre", "rc", "a", "b", "c">>

POST_LETTERS == <<"post", "rev", "r">>

DEV_LETTERS == <<"dev">>

\* the alternative that matches at i, "" when none does
LetterAt(s, i, letters) ==
    IF \E j \in 1..Len(letters) : At(s, i, letters[j])
    THEN letters[CHOOSE j \in 1..Len(letters) :
                    At(s, i, letters[j]) /\ \A k \in 1..(j - 1) : ~At(s, i, letters[k])]
    ELSE ""

\* [-_.]? letter [-_.]? [0-9]* at i: the groups matched and where the match
\* ends; an unmatched group is "" and an unmatched segment ends where it began
LetterSegment(s, i, letters) ==
    LET l == LetterAt(s, SepEnd(s, i), letters)
        n == SepEnd(s, SepEnd(s, i) + Len(l))
        e == DigitsEnd(s, n)
    IN  IF l = "" THEN [letter |-> "", number |-> "", end |-> i]
        ELSE [letter |-> l, number |-> SubSeq(s, n, e - 1), end |-> e]

\* the post-release segment: -N, or a letter segment
PostSegment(s, i) ==
    IF At(s, i, "-") /\ DigitsEnd(s, i + 1) > i + 1
    THEN [letter |-> "", number |-> SubSeq(s, i + 1, DigitsEnd(s, i + 1) - 1),
          end |-> DigitsEnd(s, i + 1)]
    ELSE LetterSegment(s, i, POST_LETTERS)

\* the position after N(.N)* at i; i when no digit is there
RECURSIVE ReleaseEnd(_, _)
ReleaseEnd(s, i) ==
    LET e == DigitsEnd(s, i)
    IN  IF e > i /\ At(s, e, ".") /\ DigitsEnd(s, e + 1) > e + 1
        THEN ReleaseEnd(s, e + 1)
        ELSE e

\* the position after x([-_.]x)* at i, x a run of letters and digits; i when
\* no such run is there
RECURSIVE LocalEnd(_, _)
LocalEnd(s, i) ==
    LET e == AlnumEnd(s, i)
    IN  IF e > i /\ SepEnd(s, e) > e /\ AlnumEnd(s, e + 1) > e + 1
        THEN LocalEnd(s, e + 1)
        ELSE e

\* Version._regex.search(version): the named groups, or no match.  The
\* pattern ignores case and surrounding whitespace.
VersionMatch(version) ==
    LET s       == IgnoreCase(Strip(version))
        start   == IF At(s, 1, "v") THEN 2 ELSE 1
        e       == DigitsEnd(s, start)
        epoch   == IF e > start /\ At(s, e, "!") THEN SubSeq(s, start, e - 1) ELSE ""
        r       == IF epoch = "" THEN start ELSE e + 1
        r_end   == ReleaseEnd(s, r)
        pre     == LetterSegment(s, r_end, PRE_LETTERS)
        post    == PostSegment(s, pre.end)
        dev     == LetterSegment(s, post.end, DEV_LETTERS)
        l_end   == IF At(s, dev.end, "+") THEN LocalEnd(s, dev.end + 1) ELSE dev.end
    IN  IF r_end > r /\ l_end = Len(s) + 1 /\ (At(s, dev.end, "+") => l_end > dev.end + 1)
        THEN [matched |-> TRUE, epoch |-> epoch, release |-> SubSeq(s, r, r_end - 1),
              pre_l |-> pre.letter, pre_n |-> pre.number,
              post_l |-> post.letter, post_n |-> post.number,
              dev_l |-> dev.letter, dev_n |-> dev.number,
              local |-> IF At(s, dev.end, "+") THEN SubSeq(s, dev.end + 1, l_end - 1) ELSE ""]
        ELSE [matched |-> FALSE]

\* _parse_letter_version: the normalised (letter, number) pair, or None
parse_letter_version(letter, number) ==
    IF letter # ""
    THEN Some(<<CASE letter = "alpha" -> "a"
                  [] letter = "beta" -> "b"
                  [] letter \in {"c", "pre", "preview"} -> "rc"
                  [] letter \in {"rev", "r"} -> "post"
                  [] OTHER -> letter,
                IF number = "" THEN 0 ELSE ToInt(number)>>)
    ELSE IF number # "" THEN Some(<<"post", ToInt(number)>>)
    ELSE None

\* _parse_local_version: the parts of the local label, numbers as numbers
parse_local_version(local) ==
    LET parts == SplitSeparators(local)
    IN  [i \in 1..Len(parts) |-> IF isdigit(parts[i]) THEN ToInt(parts[i]) ELSE parts[i]]

\* Version(version) of a string the pattern matches: the public properties
\* and str()
Version(m) ==
    LET release == [i \in 1..Len(SplitSeparators(m.release)) |->
                        ToInt(SplitSeparators(m.release)[i])]
        pre     == parse_letter_version(m.pre_l, m.pre_n)
        post    == parse_letter_version(m.post_l, m.post_n)
        dev     == parse_letter_version(m.dev_l, m.dev_n)
        parts   == parse_local_version(m.local)
        local   == Join([i \in 1..Len(parts) |->
                            IF isdigit(SplitSeparators(m.local)[i])
                            THEN IntToStr(parts[i]) ELSE parts[i]], ".")
        epoch   == IF m.epoch # "" THEN ToInt(m.epoch) ELSE 0
    IN  [kind    |-> "Version",
         epoch   |-> epoch,
         release |-> Some(release),
         pre     |-> pre,
         post    |-> IF post = None THEN None ELSE Some(Value(post)[2]),
         dev     |-> IF dev = None THEN None ELSE Some(Value(dev)[2]),
         local   |-> IF m.local = "" THEN None ELSE Some(local),
         str     |-> (IF epoch # 0 THEN IntToStr(epoch) \o "!" ELSE "")
                     \o Join([i \in 1..Len(release) |-> IntToStr(release[i])], ".")
                     \o (IF pre = None THEN ""
                         ELSE Value(pre)[1] \o IntToStr(Value(pre)[2]))
                     \o (IF post = None THEN "" ELSE ".post" \o IntToStr(Value(post)[2]))
                     \o (IF dev = None THEN "" ELSE ".dev" \o IntToStr(Value(dev)[2]))
                     \o (IF m.local = "" THEN "" ELSE "+" \o local)]

\* LegacyVersion(version): every property but the string is empty
LegacyVersion(version) ==
    [kind |-> "LegacyVersion", epoch |-> -1, release |-> None, pre |-> None,
     post |-> None, dev |-> None, local |-> None, str |-> version]

\* parse(): a Version when the string is a PEP 440 version, a LegacyVersion
\* otherwise
parse(version) ==
    IF VersionMatch(version).matched THEN Version(VersionMatch(version))
    ELSE LegacyVersion(version)
----------------------------------------------------------------------------
(* The cache: django.core.cache.cache over redis *)

VERSION_CACHE_KEY == "passbook_latest_version"

\* keys the policy engine, the flow planner and others store
DataKeys == {"policy_a", "policy_b", "flow_a", "flowpolicy_x"}

CacheKeys == DataKeys \cup {VERSION_CACHE_KEY}

CacheValues == {"r1"}

\* what update_latest_version stores: the tag of the newest release, which
\* can be a pre-release, or "0.0.0" when the lookup failed
VersionStrings == {"0.11.0-rc1", "0.0.0"}

\* redis glob matching of a pattern whose only wildcard is "*"
RECURSIVE GlobMatch(_, _)
GlobMatch(pat, key) ==
    IF Len(pat) = 0 THEN Len(key) = 0
    ELSE IF Char(pat, 1) = "*"
         THEN \/ GlobMatch(Rest(pat, 2), key)
              \/ Len(key) > 0 /\ GlobMatch(pat, Rest(key, 2))
         ELSE /\ Len(key) > 0
              /\ Char(key, 1) = Char(pat, 1)
              /\ GlobMatch(Rest(pat, 2), Rest(key, 2))

\* cache.get(key): the stored value, None when absent
cache_get(c, key) == c[key]

\* cache.keys(pattern): the stored keys matching the pattern
cache_keys(c, pattern) == {k \in DOMAIN c : c[k] # None /\ GlobMatch(pattern, k)}

\* cache.delete_many(keys): drops each key that is there, ignores the others
cache_delete_many(c, keys) == [k \in DOMAIN c |-> IF k \in keys THEN None ELSE c[k]]

\* Python truth value of what cache.get returned for a string entry: None
\* and the empty string are false, every other string is true
Truthy(o) == o # None /\ Value(o) # ""


----------------------------------------------------------------------------
(* Stored records *)

ANONYMOUS_PK == 1

Apps == 1..NApps

AUTHORIZE_APPLICATION == "authorize_application"

EventActions == {AUTHORIZE_APPLICATION, "login"}

\* the pk an event's user JSON carries; Null when the event has no user
EventUsers == (1..2) \cup {Null}

EventRows ==
    [action : EventActions, authorized_application : Apps \cup {Null}, user_pk : EventUsers]

UserTables == {{ANONYMOUS_PK} \cup S : S \in SUBSET (2..(MaxUsers + 1))}

ProviderTables ==
    {{[pk |-> i, application |-> f[i]] : i \in D} :
        D \in SUBSET (1..MaxProviders), f \in [1..MaxProviders -> {Null, 1}]}

PolicyShapes == [bindings : SUBSET {1}, promptstage : SUBSET {1}]

PolicyTables ==
    {{[pk |-> i, bindings |-> f[i].bindings, promptstage |-> f[i].promptstage] : i \in D} :
        D \in SUBSET (1..MaxPolicies), f \in [1..MaxPolicies -> PolicyShapes]}

----------------------------------------------------------------------------
(* AdministrationOverviewView *)

\* get_latest_version, line 35: the read of the cache
version_in_cache(c) == cache_get(c, VERSION_CACHE_KEY)

\* get_latest_version with update_latest_version.delay() called before the
\* DEBUG test as well as inside it
get_latest_version_delay_twice(in_cache, debug) ==
    IF ~Truthy(in_cache)
    THEN [enqueued |-> IF ~debug THEN 2 ELSE 1, version |-> parse(passbook_version)]
    ELSE [enqueued |-> 0, version |-> parse(Value(in_cache))]

\* get_latest_version without the DEBUG test
get_latest_version_no_debug_test(in_cache, debug) ==
    IF ~Truthy(in_cache)
    THEN [enqueued |-> 1, version |-> parse(passbook_version)]
    ELSE [enqueued |-> 0, version |-> parse(Value(in_cache))]

\* get_latest_version from line 36 on, in_cache being what line 35 read: the
\* version to show, and how many times update_latest_version.delay() was
\* called
get_latest_version(in_cache, debug) ==
    IF ~Truthy(in_cache)
    THEN [enqueued |-> IF ~debug THEN 1 ELSE 0, version |-> parse(passbook_version)]
    ELSE [enqueued |-> 0, version |-> parse(Value(in_cache))]

\* [:15]
TOP_APPLICATIONS == 15

\* The order in which the database returns groups of equal total_logins is
\* not specified: <<rotation, direction>> names the order it happens to use.
TieBreaks == {<<r, d>> : r \in {0, 1, NApps \div 2, NApps - 1}, d \in {0, 1}}

TieRank(a, tb) ==
    IF tb[2] = 1 THEN (a + tb[1]) % NApps ELSE (tb[1] + 2 * NApps - a) % NApps

\* ORDER BY total_logins, without the "-"
OrderedBefore_ascending(x, y, tb) ==
    \/ x.total_logins < y.total_logins
    \/ /\ x.total_logins = y.total_logins
       /\ TieRank(x.application, tb) < TieRank(y.application, tb)

\* ORDER BY total_logins DESC
OrderedBefore(x, y, tb) ==
    \/ x.total_logins > y.total_logins
    \/ /\ x.total_logins = y.total_logins
       /\ TieRank(x.application, tb) < TieRank(y.application, tb)

\* the rows in that order: each row goes to the place after the rows before it
OrderBy(rows, tb) ==
    LET place == [x \in rows |-> Cardinality({y \in rows : OrderedBefore(y, x, tb)}) + 1]
    IN  [i \in 1..Cardinality(rows) |-> CHOOSE x \in rows : place[x] = i]

Limit(rows, n) == SubSeq(rows, 1, IF Len(rows) < n THEN Len(rows) ELSE n)

\* get_most_used_applications: filter, exclude, GROUP BY application with
\* Count(application) and Count(DISTINCT user_pk), ORDER BY, LIMIT
get_most_used_applications(ev, tb) ==
    LET qs == {i \in 1..Len(ev) :
                   /\ ev[i].action = AUTHORIZE_APPLICATION
                   /\ ev[i].authorized_application # Null}
        group(a) == {i \in qs : ev[i].authorized_application = a}
        rows == {[application |-> a,
                  total_logins |-> Cardinality(group(a)),
                  unique_users |-> Cardinality({ev[i].user_pk : i \in group(a)} \ {Null})] :
                     a \in {ev[i].authorized_application : i \in qs}}
    IN  Limit(OrderBy(rows, tb), TOP_APPLICATIONS)

\* len(Policy.objects.all())
policy_count(pols) == Cardinality(pols)

\* the user count without "- 1"
user_count_with_anonymous(us) == Cardinality(us)

\* len(User.objects.all()) - 1
user_count(us) == Cardinality(us) - 1

\* len(Provider.objects.all())
provider_count(prs) == Cardinality(prs)

\* Provider.objects.filter(application=None)
providers_without_application(prs) == {p \in prs : p.application = Null}

\* the policy filter without promptstage__isnull=True
policies_without_binding_only(pols) == Cardinality({p \in pols : p.bindings = {}})

\* len(Policy.objects.filter(bindings__isnull=True, promptstage__isnull=True))
policies_without_binding(pols) ==
    Cardinality({p \in pols : p.bindings = {} /\ p.promptstage = {}})

\* len(cache.keys("policy_*")), a round trip of its own
cached_policies(c) == Cardinality(cache_keys(c, "policy_*"))

\* len(cache.keys("flow_*")), the round trip after it
cached_flows(c) == Cardinality(cache_keys(c, "flow_*"))

\* get_context_data: the template context, from the records and from what
\* the three cache round trips returned
get_context_data(version_latest, n_policies, n_flows, us, prs, pols, ev, tb) ==
    [policy_count |-> policy_count(pols),
     user_count |-> user_count(us),
     provider_count |-> provider_count(prs),
     version |-> parse(passbook_version),
     version_latest |-> version_latest,
     most_used_applications |-> get_most_used_applications(ev, tb),
     providers_without_application |-> providers_without_application(prs),
     policies_without_binding |-> policies_without_binding(pols),
     cached_policies |-> n_policies,
     cached_flows |-> n_flows]

----------------------------------------------------------------------------
(* Requests, responses and the admin guard *)

Requesters ==
    {[name |-> "admin", is_superuser |-> TRUE, is_authenticated |-> TRUE],
     [name |-> "user", is_superuser |-> FALSE, is_authenticated |-> TRUE],
     [name |-> "anonymous", is_superuser |-> FALSE, is_authenticated |-> FALSE]}

\* AdminRequiredMixin.test_func
AdminRequired(u) == u.is_superuser

NoContext == [empty |-> TRUE]

NoResponse ==
    [view |-> "", user |-> "", status |-> 0, template |-> None,
     location |-> None, messages |-> <<>>, log |-> <<>>, context |-> NoContext]

\* handle_no_permission: 403 for a signed-in user, the login page otherwise
Denied(view, u) ==
    [view |-> view, user |-> u.name,
     status |-> IF u.is_authenticated THEN 403 ELSE 302,
     template |-> None,
     location |-> IF u.is_authenticated THEN None ELSE Some("login"),
     messages |-> <<>>, log |-> <<>>, context |-> NoContext]

OVERVIEW_URL == "passbook_admin:overview"

\* FormView.post with SuccessMessageMixin: a valid form redirects to
\* success_url with the success message, an invalid one is rendered again
FormView_post(view, u, form_valid, success_message) ==
    IF form_valid
    THEN [view |-> view, user |-> u, status |-> 302, template |-> None,
          location |-> Some(OVERVIEW_URL), messages |-> <<success_message>>,
          log |-> <<>>, context |-> NoContext]
    ELSE [view |-> view, user |-> u, status |-> 200,
          template |-> Some("generic/form_non_model.html"),
          location |-> None, messages |-> <<>>,
          log |-> <<>>, context |-> NoContext]

----------------------------------------------------------------------------
(* PolicyCacheClearView and FlowCacheClearView *)

\* a pattern that is not anchored at the start of the key
POLICY_PATTERN_unanchored == "*policy_*"

POLICY_PATTERN == "policy_*"

FLOW_PATTERN == "flow_*"

\* LOGGER.debug(..., keys=len(keys)), then super().post(...)
post_respond(view, u, form_valid, keys, event, success_message) ==
    [FormView_post(view, u, form_valid, success_message)
        EXCEPT !.log = <<[event |-> event, keys |-> Cardinality(keys)]>>]

\* PolicyCacheClearView.post, first round trip: keys = cache.keys("policy_*")
PolicyCacheClearView_post_keys(c) == cache_keys(c, POLICY_PATTERN)

\* the view without SuccessMessageMixin
PolicyCacheClearView_post_delete_no_message(c, keys, u, form_valid) ==
    [cache |-> cache_delete_many(c, keys),
     resp |-> [post_respond("policy_clear", u, form_valid, keys,
                            "Cleared Policy cache",
                            "Successfully cleared Policy cache")
                  EXCEPT !.messages = <<>>]]

\* the keys deleted in form_valid instead of post
PolicyCacheClearView_post_delete_if_valid(c, keys, u, form_valid) ==
    [cache |-> cache_delete_many(c, IF form_valid THEN keys ELSE {}),
     resp |-> post_respond("policy_clear", u, form_valid, keys,
                           "Cleared Policy cache",
                           "Successfully cleared Policy cache")]

\* a delete by pattern, of the keys that match when the delete runs
PolicyCacheClearView_post_delete_matching(c, keys, u, form_valid) ==
    [cache |-> cache_delete_many(c, cache_keys(c, POLICY_PATTERN)),
     resp |-> post_respond("policy_clear", u, form_valid, keys,
                           "Cleared Policy cache",
                           "Successfully cleared Policy cache")]

\* PolicyCacheClearView.post, the rest: cache.delete_many(keys), the log line
\* and super().post(...); the cache and the response it leaves
PolicyCacheClearView_post_delete(c, keys, u, form_valid) ==
    [cache |-> cache_delete_many(c, keys),
     resp |-> post_respond("policy_clear", u, form_valid, keys,
                           "Cleared Policy cache",
                           "Successfully cleared Policy cache")]

\* FlowCacheClearView.post, first round trip: keys = cache.keys("flow_*")
FlowCacheClearView_post_keys(c) == cache_keys(c, FLOW_PATTERN)

\* FlowCacheClearView.post, the rest
FlowCacheClearView_post_delete(c, keys, u, form_valid) ==
    [cache |-> cache_delete_many(c, keys),
     resp |-> post_respond("flow_clear", u, form_valid, keys,
                           "Cleared flow cache",
                           "Successfully cleared Flow cache")]

----------------------------------------------------------------------------
(* Actions: the steps of the three handlers, and the rest of the program *)

\* no request is being handled
Idle == [pc |-> "idle", view |-> "", user |-> "", form_valid |-> FALSE,
         keys |-> {}, inserted |-> {}, removed |-> {},
         version_in_cache |-> None, enqueued |-> 0, version_latest |-> None,
         cached_policies |-> 0]

\* a request can start: none is being handled
Ready == inflight.pc \in {"idle", "done"}

db == <<users, providers, policies, events, tie_order>>

\* the request will call update_latest_version.delay(), having read in_cache
WillEnqueue(in_cache) == get_latest_version(in_cache, DEBUG).enqueued > 0

\* GET of the overview page by requester u: dispatch, then get_context_data
\* up to the first cache round trip, the read of the cached version in
\* get_latest_version.  The exploration is bounded to queues of at most
\* MaxTasks tasks: a request that would add a task to a full queue is not
\* begun.  The code has no such limit; the bound cuts the behaviours with
\* longer queues.
AdministrationOverviewView(u) ==
    /\ Ready
    /\ IF ~AdminRequired(u)
       THEN /\ resp' = Denied("overview", u)
            /\ inflight' = Idle
       ELSE /\ task_queue < MaxTasks \/ ~WillEnqueue(version_in_cache(cache))
            /\ resp' = NoResponse
            /\ inflight' = [Idle EXCEPT !.pc = "read",
                                        !.view = "overview",
                                        !.user = u.name,
                                        !.version_in_cache = version_in_cache(cache)]
    /\ UNCHANGED <<cache, DEBUG, task_queue, db>>

\* get_latest_version from the test of what was read on: the call of
\* update_latest_version.delay(), the round trip to the task queue, and the
\* parsing of the version to show
AdministrationOverviewView_get_latest_version ==
    /\ inflight.pc = "read"
    /\ LET latest == get_latest_version(inflight.version_in_cache, DEBUG)
       IN  /\ task_queue' = task_queue + latest.enqueued
           /\ inflight' = [inflight EXCEPT !.pc = "versioned",
                                           !.enqueued = latest.enqueued,
                                           !.version_latest = Some(latest.version)]
    /\ UNCHANGED <<cache, DEBUG, db, resp>>

\* get_context_data, the next cache round trip: cached_policies
AdministrationOverviewView_cached_policies ==
    /\ inflight.pc = "versioned"
    /\ inflight' = [inflight EXCEPT !.pc = "counted",
                                    !.cached_policies = cached_policies(cache)]
    /\ UNCHANGED <<cache, DEBUG, task_queue, db, resp>>

\* get_context_data, the last cache round trip, cached_flows, and the
\* rendering of the template
AdministrationOverviewView_render ==
    /\ inflight.pc = "counted"
    /\ resp' = [view |-> "overview", user |-> inflight.user, status |-> 200,
                template |-> Some("administration/overview.html"),
                location |-> None, messages |-> <<>>, log |-> <<>>,
                context |-> get_context_data(Value(inflight.version_latest),
                                             inflight.cached_policies,
                                             cached_flows(cache),
                                             users, providers, policies, events,
                                             tie_order)]
    /\ inflight' = Idle
    /\ UNCHANGED <<cache, DEBUG, task_queue, db>>

\* the view without AdminRequiredMixin
PolicyCacheClearView_unguarded(u, form_valid) ==
    /\ Ready
    /\ resp' = NoResponse
    /\ inflight' = [Idle EXCEPT !.pc = "enumerated",
                                !.view = "policy_clear",
                                !.user = u.name,
                                !.form_valid = form_valid,
                                !.keys = PolicyCacheClearView_post_keys(cache)]
    /\ UNCHANGED <<cache, DEBUG, task_queue, db>>

\* POST to the policy cache-clear page by requester u: dispatch, then post
\* up to the enumeration of the keys
PolicyCacheClearView(u, form_valid) ==
    /\ Ready
    /\ IF ~AdminRequired(u)
       THEN /\ resp' = Denied("policy_clear", u)
            /\ inflight' = Idle
       ELSE /\ resp' = NoResponse
            /\ inflight' = [Idle EXCEPT !.pc = "enumerated",
                                        !.view = "policy_clear",
                                        !.user = u.name,
                                        !.form_valid = form_valid,
                                        !.keys = PolicyCacheClearView_post_keys(cache)]
    /\ UNCHANGED <<cache, DEBUG, task_queue, db>>

\* post from the delete on: the enumerated keys are deleted, the form is
\* validated and answered
PolicyCacheClearView_delete ==
    /\ inflight.pc = "enumerated"
    /\ inflight.view = "policy_clear"
    /\ LET out == PolicyCacheClearView_post_delete(cache, inflight.keys, inflight.user,
                                                   inflight.form_valid)
       IN  /\ cache' = out.cache
           /\ resp' = out.resp
    /\ inflight' = [inflight EXCEPT !.pc = "done"]
    /\ UNCHANGED <<DEBUG, task_queue, db>>

\* POST to the flow cache-clear page by requester u
FlowCacheClearView(u, form_valid) ==
    /\ Ready
    /\ IF ~AdminRequired(u)
       THEN /\ resp' = Denied("flow_clear", u)
            /\ inflight' = Idle
       ELSE /\ resp' = NoResponse
            /\ inflight' = [Idle EXCEPT !.pc = "enumerated",
                                        !.view = "flow_clear",
                                        !.user = u.name,
                                        !.form_valid = form_valid,
                                        !.keys = FlowCacheClearView_post_keys(cache)]
    /\ UNCHANGED <<cache, DEBUG, task_queue, db>>

FlowCacheClearView_delete ==
    /\ inflight.pc = "enumerated"
    /\ inflight.view = "flow_clear"
    /\ LET out == FlowCacheClearView_post_delete(cache, inflight.keys, inflight.user,
                                                 inflight.form_valid)
       IN  /\ cache' = out.cache
           /\ resp' = out.resp
    /\ inflight' = [inflight EXCEPT !.pc = "done"]
    /\ UNCHANGED <<DEBUG, task_queue, db>>

\* the prefix a cache-clear view is about
PrefixOf(view) == IF view = "policy_clear" THEN "policy_" ELSE "flow_"

HasPrefix(k, p) == Len(k) >= Len(p) /\ SubSeq(k, 1, Len(p)) = p

\* Another process stores a cache entry.  While a cache-clear request is
\* between its two cache operations, inflight.inserted notes the keys of its
\* prefix that it did not enumerate and that were stored since.
CacheSet(k, v) ==
    /\ cache[k] # Some(v)
    /\ cache' = [cache EXCEPT ![k] = Some(v)]
    /\ inflight' =
          IF /\ inflight.pc = "enumerated"
             /\ HasPrefix(k, PrefixOf(inflight.view))
             /\ k \notin inflight.keys
          THEN [inflight EXCEPT !.inserted = @ \cup {k}]
          ELSE inflight
    /\ UNCHANGED <<DEBUG, task_queue, db, resp>>

\* A cache entry expires or is deleted by another process.  inflight.removed
\* notes the enumerated keys that went away before the request deleted them.
CacheExpire(k) ==
    /\ cache[k] # None
    /\ cache' = [cache EXCEPT ![k] = None]
    /\ inflight' =
          [inflight EXCEPT
              !.inserted = @ \ {k},
              !.removed = IF inflight.pc = "enumerated" /\ k \in inflight.keys
                          THEN @ \cup {k} ELSE @]
    /\ UNCHANGED <<DEBUG, task_queue, db, resp>>

\* the worker runs update_latest_version, from the queue or from its schedule
update_latest_version(v, queued) ==
    /\ queued => task_queue > 0
    /\ task_queue' = IF queued THEN task_queue - 1 ELSE task_queue
    /\ cache' = [cache EXCEPT ![VERSION_CACHE_KEY] = Some(v)]
    /\ UNCHANGED <<DEBUG, db, resp, inflight>>

----------------------------------------------------------------------------
(* Initial states *)

EmptyCache == [k \in CacheKeys |-> None]

SampleCache ==
    [k \in CacheKeys |->
        IF k = VERSION_CACHE_KEY THEN Some("0.11.0-rc1")
        ELSE IF k = "policy_b" THEN None ELSE Some("r1")]

SampleEvents ==
    <<[action |-> AUTHORIZE_APPLICATION, authorized_application |-> 1, user_pk |-> 1],
      [action |-> AUTHORIZE_APPLICATION, authorized_application |-> 2, user_pk |-> 2],
      [action |-> "login", authorized_application |-> Null, user_pk |-> 2]>>

SampleUsers == {ANONYMOUS_PK, 2}

SampleProviders == {[pk |-> 1, application |-> Null], [pk |-> 2, application |-> 1]}

SamplePolicies ==
    {[pk |-> 1, bindings |-> {}, promptstage |-> {1}],
     [pk |-> 2, bindings |-> {}, promptstage |-> {}]}

InitWith(Cs, Ds, Us, Prs, Pols, Evs, Tbs) ==
    /\ cache \in Cs
    /\ DEBUG \in Ds
    /\ task_queue = 0
    /\ users \in Us
    /\ providers \in Prs
    /\ policies \in Pols
    /\ events \in Evs
    /\ tie_order \in Tbs
    /\ resp = NoResponse
    /\ inflight = Idle

----------------------------------------------------------------------------
(* Spec: the three handlers, one cache round trip at a time, while other   *)
(* processes store and drop cache entries and the worker runs its task     *)

Init ==
    InitWith({EmptyCache}, BOOLEAN, {SampleUsers}, {SampleProviders}, {SamplePolicies},
             {SampleEvents}, {<<0, 1>>})

Overview ==
    \/ \E u \in Requesters : AdministrationOverviewView(u)
    \/ AdministrationOverviewView_get_latest_version
    \/ AdministrationOverviewView_cached_policies
    \/ AdministrationOverviewView_render

Next ==
    \/ Overview
    \/ \E u \in Requesters, form_valid \in BOOLEAN : PolicyCacheClearView(u, form_valid)
    \/ PolicyCacheClearView_delete
    \/ \E u \in Requesters, form_valid \in BOOLEAN : FlowCacheClearView(u, form_valid)
    \/ FlowCacheClearView_delete
    \/ \E k \in DataKeys, v \in CacheValues : CacheSet(k, v)
    \/ \E k \in CacheKeys : CacheExpire(k)
    \/ \E v \in VersionStrings, queued \in BOOLEAN : update_latest_version(v, queued)

Spec == Init /\ [][Next]_vars

----------------------------------------------------------------------------
(* SpecRecords: the overview page over every small table of records, the   *)
(* cache left alone                                                        *)

InitRecords ==
    InitWith({SampleCache}, {FALSE}, UserTables, ProviderTables, PolicyTables,
             {SampleEvents}, {<<0, 1>>})

NextRecords == Overview

SpecRecords == InitRecords /\ [][NextRecords]_vars

----------------------------------------------------------------------------
(* SpecApps: the overview page over audit logs naming many applications,   *)
(* the cache left alone                                                    *)

\* Three events for each of the first k applications: application a is
\* authorized 1 + (a % 3) times, by one or two users, and the slots left
\* over hold a login event naming it and an authorization of no application.
BaseEvent(a, slot) ==
    IF slot = 0
    THEN [action |-> AUTHORIZE_APPLICATION, authorized_application |-> a, user_pk |-> 1]
    ELSE IF slot = 1
    THEN [action |-> IF a % 3 >= 1 THEN AUTHORIZE_APPLICATION ELSE "login",
          authorized_application |-> a, user_pk |-> 2]
    ELSE [action |-> AUTHORIZE_APPLICATION,
          authorized_application |-> IF a % 3 = 2 THEN a ELSE Null,
          user_pk |-> IF a % 3 = 2 THEN 1 ELSE 2]

BaseLoad(k) == [j \in 1..(3 * k) |-> BaseEvent(((j - 1) \div 3) + 1, (j - 1) % 3)]

BaseSizes == {0, TOP_APPLICATIONS, NApps}

\* the base load alone, or followed by one more event of any kind
ExtraEvents == {<<>>} \cup {<<e>> : e \in EventRows}

EventLogs == {BaseLoad(k) \o extra : k \in BaseSizes, extra \in ExtraEvents}

InitApps ==
    InitWith({SampleCache}, {FALSE}, {SampleUsers}, {SampleProviders}, {SamplePolicies},
             EventLogs, TieBreaks)

NextApps == Overview

SpecApps == InitApps /\ [][NextApps]_vars

----------------------------------------------------------------------------
(* Properties *)

Admins == {u \in Requesters : u.is_superuser}

Others == {u \in Requesters : ~u.is_superuser}

Rendered == resp.view = "overview" /\ resp.status = 200

\* the first step of an overview request of requester u: it leaves the
\* request in flight, or the refusal as the response
OverviewStep(u) ==
    /\ IF AdminRequired(u) THEN inflight'.pc = "read"
       ELSE inflight'.pc = "idle" /\ resp'.view = "overview"
    /\ AdministrationOverviewView(u)

\* the step of an overview request that calls update_latest_version.delay()
\* or does not, and parses
VersionStep == inflight'.pc = "versioned" /\ AdministrationOverviewView_get_latest_version

\* the last step of an overview request: the request is no longer in flight
RenderStep == inflight'.pc = "idle" /\ AdministrationOverviewView_render

\* the keys of prefix p stored in cache c
Stored(c, p) == {k \in CacheKeys : HasPrefix(k, p) /\ c[k] # None}

\* the step in which a cache-clear request deletes
DeleteStep(view) ==
    /\ inflight.pc = "enumerated"
    /\ inflight.view = view
    /\ inflight'.pc = "done"
    /\ IF view = "policy_clear" THEN PolicyCacheClearView_delete
       ELSE FlowCacheClearView_delete

ClearViews == {"policy_clear", "flow_clear"}

\* the step in which a cache-clear request of requester u enumerates
EnumerateStep(view, u, form_valid) ==
    /\ inflight'.view = view
    /\ IF view = "policy_clear" THEN PolicyCacheClearView(u, form_valid)
       ELSE FlowCacheClearView(u, form_valid)

\* C1, as claimed: when a cache-clear request has deleted, no key with its
\* prefix is stored, and every other key (the other handler's keys,
\* look-alike keys, the version key) is stored with the value it had.
C1_ClearRemovesExactlyItsPrefix ==
    [][\A view \in ClearViews :
          DeleteStep(view) =>
              \A k \in CacheKeys :
                  cache'[k] = IF HasPrefix(k, PrefixOf(view)) THEN None ELSE cache[k]]_vars

\* C1, amended: a cache-clear request removes exactly the keys of its prefix
\* that were stored when it enumerated them.  Its enumeration returns the
\* stored keys of the prefix and no others; its delete removes the enumerated
\* keys and leaves every other key with the value it had; and the keys of the
\* prefix stored afterwards are the ones another process stored between the
\* enumeration and the delete, none when no process did.
C1_ClearRemovesEnumeratedKeys ==
    [][\A view \in ClearViews :
          /\ \A u \in Admins, form_valid \in BOOLEAN :
                EnumerateStep(view, u, form_valid) =>
                    inflight'.keys = Stored(cache, PrefixOf(view))
          /\ DeleteStep(view) =>
                /\ \A k \in CacheKeys :
                      cache'[k] = IF k \in inflight.keys THEN None ELSE cache[k]
                /\ Stored(cache', PrefixOf(view)) = inflight.inserted]_vars

C1_Witness ==
    /\ inflight.pc = "done"
    /\ inflight.view = "policy_clear"
    /\ inflight.keys = {"policy_a", "policy_b"}
    /\ inflight.inserted = {}
    /\ inflight.removed = {}
    /\ resp.log # <<>>
    /\ resp.log[1].keys = 2
    /\ Stored(cache, "policy_") = {}
    /\ cache["flow_a"] # None
    /\ cache["flowpolicy_x"] # None
    /\ cache[VERSION_CACHE_KEY] # None

\* C2: the overview page shows the number of policy rows, the number of
\* provider rows, and the number of user rows other than the anonymous user.
C2_DisplayedCounts ==
    Rendered =>
        /\ resp.context.policy_count = Cardinality(policies)
        /\ resp.context.provider_count = Cardinality(providers)
        /\ resp.context.user_count = Cardinality(users \ {ANONYMOUS_PK})

C2_Witness ==
    /\ Rendered
    /\ resp.context.policy_count = 2
    /\ resp.context.provider_count = 1
    /\ resp.context.user_count = 0

\* C3: no step of an overview request changes a cache entry or a user,
\* provider, policy or event row; the one step in which get_latest_version
\* goes on from what it read enqueues at most one version task, and every
\* other step leaves the queue alone.
C3_OverviewReadOnly ==
    [][/\ (\/ \E u \in Requesters : OverviewStep(u)
           \/ VersionStep
           \/ AdministrationOverviewView_cached_policies
           \/ RenderStep) =>
                 /\ cache' = cache
                 /\ <<users, providers, policies, events>>' =
                        <<users, providers, policies, events>>
       /\ VersionStep =>
                 /\ task_queue' \in {task_queue, task_queue + 1}
                 /\ inflight.enqueued = 0
                 /\ inflight'.enqueued = task_queue' - task_queue
       /\ (\/ \E u \in Requesters : OverviewStep(u)
           \/ AdministrationOverviewView_cached_policies
           \/ RenderStep) =>
                 task_queue' = task_queue]_vars

C3_Witness ==
    /\ Rendered
    /\ task_queue = 1
    /\ resp.context.cached_policies = 2
    /\ resp.context.cached_flows = 1
    /\ cache["policy_a"] # None
    /\ cache["policy_b"] # None

\* C4: an overview request that passes the guard reads the cached version
\* once, and get_latest_version enqueues the version task exactly when what
\* it read is no version and DEBUG is off; it returns, in that same step, the
\* parsed version it read when there is one and the parsed version constant
\* otherwise; and the page shows the value returned, whatever the worker has
\* stored since.
C4_LatestVersion ==
    [][/\ \A u \in Admins :
             OverviewStep(u) =>
                 /\ inflight'.version_in_cache = cache[VERSION_CACHE_KEY]
                 /\ inflight'.version_latest = None
                 /\ task_queue' = task_queue
       /\ VersionStep =>
             LET absent == \/ inflight.version_in_cache = None
                           \/ Value(inflight.version_in_cache) = ""
             IN  /\ task_queue' = task_queue + 1 <=> absent /\ ~DEBUG
                 /\ task_queue' # task_queue + 1 => task_queue' = task_queue
                 /\ inflight'.version_latest =
                        Some(IF absent THEN parse(passbook_version)
                             ELSE parse(Value(inflight.version_in_cache)))
                 /\ cache'[VERSION_CACHE_KEY] = cache[VERSION_CACHE_KEY]
       /\ RenderStep =>
             /\ resp'.context.version_latest = Value(inflight.version_latest)
             /\ task_queue' = task_queue]_vars

C4_Witness ==
    /\ Rendered
    /\ ~DEBUG
    /\ task_queue = 1
    /\ cache[VERSION_CACHE_KEY] = None
    /\ resp.context.version_latest.kind = "LegacyVersion"
    /\ resp.context.version_latest.str = passbook_version

Redirected(r, message) ==
    /\ r.status = 302
    /\ r.location = Some(OVERVIEW_URL)
    /\ r.template = None
    /\ r.messages = <<message>>

Rerendered(r) ==
    /\ r.status = 200
    /\ r.template = Some("generic/form_non_model.html")
    /\ r.location = None
    /\ r.messages = <<>>

SuccessMessage(view) ==
    IF view = "policy_clear" THEN "Successfully cleared Policy cache"
    ELSE "Successfully cleared Flow cache"

\* C5: a POST that reaches a cache-clear handler ends in one of two ways: a
\* valid form has the keys of the prefix deleted and is answered by a
\* redirect to the overview page with the success message; an invalid form
\* is rendered again, with no redirect and no message.
C5_TwoOutcomes ==
    [][\A view \in ClearViews :
          DeleteStep(view) =>
              IF inflight.form_valid
              THEN /\ Redirected(resp', SuccessMessage(view))
                   /\ \A k \in inflight.keys :
                         HasPrefix(k, PrefixOf(view)) /\ cache'[k] = None
              ELSE Rerendered(resp')]_vars

C5_Witness ==
    /\ resp.view = "policy_clear"
    /\ resp.user = "admin"
    /\ Redirected(resp, "Successfully cleared Policy cache")
    /\ resp.log # <<>>
    /\ resp.log[1].keys = 1
    /\ inflight.pc = "done"
    /\ inflight.form_valid

\* C6: a request from a user who is not a superuser is turned away by each
\* of the three handlers in its first step: the step deletes no cache key,
\* enqueues no version task and answers without the overview data, and no
\* later step is taken for it.
C6_Guard ==
    /\ [][\A u \in Others, form_valid \in BOOLEAN :
             (\/ AdministrationOverviewView(u)
              \/ PolicyCacheClearView(u, form_valid)
              \/ FlowCacheClearView(u, form_valid))
             => /\ cache' = cache
                /\ task_queue' = task_queue
                /\ resp'.context = NoContext
                /\ resp'.status \in {302, 403}
                /\ resp'.location # Some(OVERVIEW_URL)
                /\ resp'.messages = <<>>
                /\ inflight'.pc = "idle"]_vars
    /\ [](/\ inflight.pc # "idle" => \E u \in Admins : inflight.user = u.name
          /\ resp.context # NoContext => \E u \in Admins : resp.user = u.name)

C6_Witness ==
    /\ resp.view = "policy_clear"
    /\ resp.user = "user"
    /\ resp.status = 403
    /\ inflight.pc = "idle"
    /\ cache["policy_a"] # None
    /\ cache[VERSION_CACHE_KEY] = None
    /\ ~DEBUG
    /\ task_queue = 0

\* the authorize-application events that name an application
Authorizations ==
    {i \in 1..Len(events) :
        /\ events[i].action = AUTHORIZE_APPLICATION
        /\ events[i].authorized_application # Null}

AuthorizedApps == {events[i].authorized_application : i \in Authorizations}

LoginsOf(a) == {i \in Authorizations : events[i].authorized_application = a}

UsersOf(a) == {events[i].user_pk : i \in LoginsOf(a)} \ {Null}

Min(a, b) == IF a < b THEN a ELSE b

\* C7: most_used_applications holds at most 15 entries, one for each of the
\* applications named by authorize-application events (all of them when
\* there are at most 15), each with its number of such events and its number
\* of distinct users, which is never more than the number of events; the
\* entries are in descending order of logins, and no application left out
\* has more logins than one that is in.
C7_MostUsedApplications ==
    Rendered =>
        LET r == resp.context.most_used_applications
            included == {r[i].application : i \in 1..Len(r)}
        IN  /\ Len(r) = Min(TOP_APPLICATIONS, Cardinality(AuthorizedApps))
            /\ Cardinality(included) = Len(r)
            /\ included \subseteq AuthorizedApps
            /\ \A i \in 1..Len(r) :
                  /\ r[i].total_logins = Cardinality(LoginsOf(r[i].application))
                  /\ r[i].unique_users = Cardinality(UsersOf(r[i].application))
                  /\ r[i].unique_users <= r[i].total_logins
            /\ \A i, j \in 1..Len(r) : i < j => r[i].total_logins >= r[j].total_logins
            /\ \A a \in AuthorizedApps \ included, i \in 1..Len(r) :
                  Cardinality(LoginsOf(a)) <= r[i].total_logins

C7_Witness ==
    /\ Rendered
    /\ Cardinality(AuthorizedApps) > TOP_APPLICATIONS
    /\ LET r == resp.context.most_used_applications
       IN  /\ Len(r) = TOP_APPLICATIONS
           /\ r[1].total_logins = 4
           /\ r[1].unique_users = 2
           /\ r[TOP_APPLICATIONS].total_logins = 1

\* C8, as claimed: policies_without_binding is the number of policy rows
\* with no binding attached.
C8_CountsPoliciesWithoutBinding ==
    Rendered =>
        resp.context.policies_without_binding =
            Cardinality({p \in policies : p.bindings = {}})

\* C8, amended: policies_without_binding is the number of policy rows with
\* no binding attached and no prompt stage using them.
C8_CountsUnboundUnusedPolicies ==
    Rendered =>
        resp.context.policies_without_binding =
            Cardinality({p \in policies : p.bindings = {}}) -
            Cardinality({p \in policies : p.bindings = {} /\ p.promptstage # {}})

C8_Witness ==
    /\ Rendered
    /\ resp.context.policies_without_binding = 1
    /\ Cardinality(policies) = 2
    /\ \A p \in policies : p.bindings = {}
    /\ \E p \in policies : p.promptstage # {}

LogEvent(view) ==
    IF view = "policy_clear" THEN "Cleared Policy cache" ELSE "Cleared flow cache"

\* C9: every POST that passes the guard deletes the keys of the handler's
\* prefix before the form is looked at: the request enumerates the stored
\* keys of the prefix whatever the form holds, and a request whose form is
\* invalid, answered by the form rendered again with no message, has deleted
\* every key it enumerated all the same.
C9_DeleteBeforeValidation ==
    [][\A view \in ClearViews :
          /\ \A u \in Admins :
                EnumerateStep(view, u, FALSE) =>
                    /\ inflight'.pc = "enumerated"
                    /\ Stored(cache, PrefixOf(view)) \subseteq inflight'.keys
          /\ DeleteStep(view) /\ ~inflight.form_valid =>
                /\ \A k \in inflight.keys : cache'[k] = None
                /\ resp'.log = <<[event |-> LogEvent(view),
                                  keys |-> Cardinality(inflight.keys)]>>
                /\ resp'.status = 200
                /\ resp'.messages = <<>>]_vars

C9_Witness ==
    /\ resp.view = "policy_clear"
    /\ Rerendered(resp)
    /\ resp.log # <<>>
    /\ resp.log[1].keys = 2
    /\ inflight.pc = "done"
    /\ ~inflight.form_valid
    /\ cache["policy_a"] = None
    /\ cache["policy_b"] = None

\* C10: a cache-clear request enumerates and deletes in two steps that other
\* processes come between, and deletes the keys its enumeration returned and
\* no others.  A key of its prefix that another process stores between the
\* enumeration and the delete is still stored when the request has finished
\* (for as long as no other process removes it), and a key that another
\* process removed in between does not keep the request from finishing with
\* its usual response.
C10_DeletesOnlyEnumeratedKeys ==
    /\ [][\A view \in ClearViews :
             DeleteStep(view) =>
                 /\ cache_keys(cache, "*") \ cache_keys(cache', "*") \subseteq inflight.keys
                 /\ \A k \in inflight.inserted : cache'[k] = cache[k]]_vars
    /\ [](inflight.pc = "done" =>
             /\ \A k \in inflight.inserted : cache[k] # None
             /\ resp.view = inflight.view
             /\ IF inflight.form_valid THEN resp.status = 302 ELSE Rerendered(resp))

C10_Witness ==
    /\ inflight.pc = "done"
    /\ inflight.view = "policy_clear"
    /\ inflight.keys = {"policy_a"}
    /\ inflight.removed = {"policy_a"}
    /\ inflight.inserted = {"policy_b"}
    /\ cache["policy_b"] # None
    /\ resp.status = 302

====
